---- MODULE Spec2Model ----
(***************************************************************************)
(* Model of src/merkletree/merkletree.go: the byte-segmented Merkle tree   *)
(* (chopData, buildTree, GetRootHash, Validate, Equals).                   *)
(*                                                                         *)
(* Three specifications:                                                     *)
(*   Spec      a caller builds a tree from a buffer, may overwrite bytes   *)
(*             of the buffer it still shares with the tree, and calls      *)
(*             GetRootHash / Validate / Equals on it.                      *)
(*   SpecPair  a caller builds a tree, then a second tree with the same    *)
(*             segment size, and compares them.                            *)
(*   SpecWrap  the constructor (chopData's loop, then buildTree's          *)
(*             recursion) run step by step over every buffer length the    *)
(*             unsigned width can hold.                                    *)
(*                                                                         *)
(* The hash function is modelled as collision-free: Hash(x) is the term    *)
(* "x between brackets", so two hashes are equal iff their inputs are.     *)
(* uint32 is scaled down to Width bits; all uint32 arithmetic wraps        *)
(* modulo 2^Width.                                                         *)
(***************************************************************************)
EXTENDS Integers, Sequences, FiniteSets, TLC

VARIABLES
    mt,         \* the MerkleTree under test: [root, data, segmentSize]
    built,      \* the contents of the buffer when mt was constructed
    segments,   \* what chopData returned to mt's constructor
    writes,     \* how many bytes the caller has overwritten since
    other,      \* a second MerkleTree with the same segment size
    op,         \* the last call made
    ok,         \* the boolean the last Validate / Equals returned
    digest,     \* the bytes the last GetRootHash returned
    panicked,   \* a nil pointer was dereferenced: the program has crashed
    wLen,       \* SpecWrap: dataLen
    wSeg,       \* SpecWrap: segmentSize
    wi,         \* SpecWrap: chopData's loop counter i
    wn,         \* SpecWrap: len(segments) so far
    wpc,        \* SpecWrap: "chop", "build" or "done"
    wstack      \* SpecWrap: the pending buildTree calls, <<start, end>>

vars == <<mt, built, segments, writes, other, op, ok, digest, panicked,
          wLen, wSeg, wi, wn, wpc, wstack>>
mainVars == <<mt, built, segments, writes, other, op, ok, digest, panicked>>
wrapVars == <<wLen, wSeg, wi, wn, wpc, wstack>>

---------------------------------------------------------------------------
(* Bounds *)

\* bits of the unsigned integer type (uint32 in the source, scaled down)
Width == 5
\* buffers of every content up to this length
MaxLen == 4
\* one buffer (bytes 0, 1, 2, ...) of each longer length up to this one
LongLen == 12
\* segment sizes 1..MaxSeg
MaxSeg == 4
\* bytes the caller overwrites after construction
MaxWrites == 1

Bytes == {0, 1}
Mod == 2 ^ Width
SegSizes == 1 .. MaxSeg

Pattern(n) == [i \in 1 .. n |-> i - 1]
Buffers ==
    UNION {[1 .. n -> Bytes] : n \in 0 .. MaxLen}
        \cup {Pattern(n) : n \in (MaxLen + 1) .. LongLen}

---------------------------------------------------------------------------
(* Integers and hashes *)

\* a value of type uint32
U32(x) == x % Mod

min(a, b) == IF a < b THEN a ELSE b

\* newHash(), Write(x), Sum(nil): the digest of the bytes x
Hash(x) == <<-1>> \o x \o <<-2>>

\* bytes.Equal
BytesEqual(a, b) == a = b

---------------------------------------------------------------------------
(* Nodes *)

Nil == [kind |-> "nil"]
\* the value of a construction that dereferenced a nil *node
Panic == [kind |-> "panic"]
Node(l, r, h) == [kind |-> "node", left |-> l, right |-> r, hash |-> h]

---------------------------------------------------------------------------
(* chopData *)

RECURSIVE chopLoop(_, _, _, _)
chopLoop(data, segmentSize, i, segs) ==
    LET dataLen == U32(Len(data)) IN
    IF i < dataLen
    THEN LET currSegmentSize == min(U32(dataLen - i), segmentSize)
             segment == SubSeq(data, i + 1, i + currSegmentSize)
         IN  chopLoop(data, segmentSize, U32(i + segmentSize),
                      Append(segs, segment))
    ELSE segs

\* a chopData that stops before a partial tail instead of copying it
RECURSIVE chopLoopDropTail(_, _, _, _)
chopLoopDropTail(data, segmentSize, i, segs) ==
    LET dataLen == U32(Len(data)) IN
    IF i + segmentSize <= dataLen
    THEN chopLoopDropTail(data, segmentSize, U32(i + segmentSize),
                          Append(segs, SubSeq(data, i + 1, i + segmentSize)))
    ELSE segs

chopDataDropTail(data, segmentSize) ==
    chopLoopDropTail(data, segmentSize, 0, <<>>)

chopData(data, segmentSize) == chopLoop(data, segmentSize, 0, <<>>)

---------------------------------------------------------------------------
(* buildTree *)

\* a split one byte after start instead of at the midpoint
MidOneByte(start, end) == U32(start + 1)

\* mid := start + ((end - start) / 2)
Mid(start, end) == U32(start + (U32(end - start) \div 2))

RECURSIVE NumLeaves(_)
NumLeaves(n) ==
    IF n.kind # "node" THEN 0
    ELSE IF n.left = Nil /\ n.right = Nil THEN 1
    ELSE NumLeaves(n.left) + NumLeaves(n.right)

\* the caller's slice if the callee's "segments = segments[1:]" reached it:
\* one segment gone for every leaf the call built
AfterCallConsumed(segs, n) == SubSeq(segs, NumLeaves(n) + 1, Len(segs))

\* The caller's slice after a recursive call returned n.  The callee's
\* "segments = segments[1:]" assigns to the callee's own copy of the slice
\* header, so the caller's slice is what it was.
AfterCall(segs, n) == segs

RECURSIVE buildTree(_, _, _, _)
buildTree(m, segs, start, end) ==
    IF Len(segs) = 0
    THEN Nil
    ELSE IF U32(end - start) <= m.segmentSize
    THEN Node(Nil, Nil, Hash(segs[1]))
    ELSE LET mid == Mid(start, end)
             l == buildTree(m, segs, start, mid)
             r == buildTree(m, AfterCall(segs, l), mid, end)
         IN  \* n.left.hash, n.right.hash: a nil child is dereferenced
             IF l.kind # "node" \/ r.kind # "node"
             THEN Panic
             ELSE Node(l, r, Hash(l.hash \o r.hash))

\* NewMerkleTreeWithCostumHash, with the hash function fixed
NewMerkleTreeWithCostumHash(data, segmentSize) ==
    LET m == [root |-> Nil, data |-> data, segmentSize |-> segmentSize]
        segs == chopData(data, segmentSize)
    IN  [m EXCEPT !.root = buildTree(m, segs, U32(0), U32(Len(data)))]

NewMerkleTree(data, segmentSize) ==
    NewMerkleTreeWithCostumHash(data, segmentSize)

---------------------------------------------------------------------------
(* Equals *)

RECURSIVE subTreeEquals(_, _)
subTreeEquals(n, o) ==
    IF n = Nil /\ o = Nil THEN TRUE
    ELSE IF o = Nil \/ n = Nil THEN FALSE
    ELSE IF ~BytesEqual(n.hash, n.hash) THEN FALSE
    ELSE subTreeEquals(n.left, o.left) /\ subTreeEquals(n.right, o.right)

\* mt.Equals(other)
Equals(m, o) == subTreeEquals(m.root, o.root)

\* what GetRootHash returns for a tree with a root
RootHash(m) == m.root.hash

---------------------------------------------------------------------------
(* What the claims measure on a tree *)

IsLeaf(n) == n.kind = "node" /\ n.left = Nil /\ n.right = Nil

\* the digests of the leaves, left to right
RECURSIVE LeafHashes(_)
LeafHashes(n) ==
    IF n.kind # "node" THEN <<>>
    ELSE IF IsLeaf(n) THEN <<n.hash>>
    ELSE LeafHashes(n.left) \o LeafHashes(n.right)

\* the depths at which the leaves of n sit, n itself at depth d
RECURSIVE LeafDepths(_, _)
LeafDepths(n, d) ==
    IF n.kind # "node" THEN {}
    ELSE IF IsLeaf(n) THEN {d}
    ELSE LeafDepths(n.left, d + 1) \cup LeafDepths(n.right, d + 1)

\* every node has no child or two present children
RECURSIVE FullBinary(_)
FullBinary(n) ==
    /\ n.kind = "node"
    /\ \/ IsLeaf(n)
       \/ /\ n.left.kind = "node" /\ n.right.kind = "node"
          /\ FullBinary(n.left) /\ FullBinary(n.right)

\* every internal node carries Hash(left digest || right digest)
RECURSIVE InternalHashes(_)
InternalHashes(n) ==
    \/ n.kind # "node"
    \/ IsLeaf(n)
    \/ /\ n.left.kind = "node" /\ n.right.kind = "node"
       /\ n.hash = Hash(n.left.hash \o n.right.hash)
       /\ InternalHashes(n.left) /\ InternalHashes(n.right)

RECURSIVE Flatten(_)
Flatten(ss) == IF ss = <<>> THEN <<>> ELSE Head(ss) \o Flatten(Tail(ss))

CeilDiv(a, b) == (a + b - 1) \div b

\* the positions at which two buffers of one length differ
DiffAt(a, b) == {i \in 1 .. Len(a) : a[i] # b[i]}

---------------------------------------------------------------------------
(* Spec: a caller and its trees *)

WrapIdle ==
    /\ wLen = 0 /\ wSeg = 1 /\ wi = 0 /\ wn = 0
    /\ wpc = "idle" /\ wstack = <<>>

\* The caller holds a buffer and has chosen a segment size; no tree yet.
Init ==
    /\ \E data \in Buffers, segmentSize \in SegSizes :
          /\ mt = [root |-> Nil, data |-> data, segmentSize |-> segmentSize]
          /\ other = [root |-> Nil, data |-> <<>>, segmentSize |-> segmentSize]
          /\ built = data
    /\ segments = <<>>
    /\ writes = 0
    /\ op = "init"
    /\ ok = FALSE
    /\ digest = <<>>
    /\ panicked = FALSE
    /\ WrapIdle

\* mt, err := NewMerkleTree(data, segmentSize)
NewTree ==
    /\ op = "init"
    /\ LET m == NewMerkleTree(mt.data, mt.segmentSize) IN
       /\ mt' = m
       /\ panicked' = (m.root = Panic)
    /\ segments' = chopData(mt.data, mt.segmentSize)
    /\ op' = "NewMerkleTree"
    /\ UNCHANGED <<built, writes, other, ok, digest>>
    /\ UNCHANGED wrapVars

\* The caller writes data[i] = b through its own slice.  mt.data is that
\* slice (the constructor stores it, it does not copy it), so the tree's
\* buffer changes and its nodes do not.
OverwriteByte ==
    /\ op # "init"
    /\ ~panicked
    /\ writes < MaxWrites
    /\ \E i \in 1 .. Len(mt.data), b \in Bytes :
          /\ b # mt.data[i]
          /\ mt' = [mt EXCEPT !.data[i] = b]
    /\ writes' = writes + 1
    /\ op' = "OverwriteByte"
    /\ ok' = FALSE
    /\ digest' = <<>>
    /\ UNCHANGED <<built, segments, other, panicked>>
    /\ UNCHANGED wrapVars

\* other, err := NewMerkleTree(data, mt.segmentSize)
NewOther ==
    /\ op # "init"
    /\ ~panicked
    /\ \E data \in Buffers :
          LET o == NewMerkleTree(data, mt.segmentSize) IN
          /\ other' = o
          /\ panicked' = (o.root = Panic)
    /\ op' = "NewOther"
    /\ ok' = FALSE
    /\ digest' = <<>>
    /\ UNCHANGED <<mt, built, segments, writes>>
    /\ UNCHANGED wrapVars

\* mt.GetRootHash(): mt.root.hash.Sum(nil), whatever mt.root is
GetRootHash ==
    /\ op # "init"
    /\ ~panicked
    /\ op' = "GetRootHash"
    /\ IF mt.root = Nil
       THEN panicked' = TRUE /\ digest' = <<>>
       ELSE panicked' = FALSE /\ digest' = RootHash(mt)
    /\ ok' = FALSE
    /\ UNCHANGED <<mt, built, segments, writes, other>>
    /\ UNCHANGED wrapVars

\* mt.Validate()
Validate ==
    /\ op # "init"
    /\ ~panicked
    /\ op' = "Validate"
    /\ LET nmt == NewMerkleTreeWithCostumHash(mt.data, mt.segmentSize) IN
       IF nmt.root = Panic
       THEN panicked' = TRUE /\ ok' = FALSE
       ELSE panicked' = FALSE /\ ok' = Equals(mt, nmt)
    /\ digest' = <<>>
    /\ UNCHANGED <<mt, built, segments, writes, other>>
    /\ UNCHANGED wrapVars

\* mt.Equals(other)
EqualsOther ==
    /\ op # "init"
    /\ ~panicked
    /\ op' = "Equals"
    /\ ok' = Equals(mt, other)
    /\ digest' = <<>>
    /\ UNCHANGED <<mt, built, segments, writes, other, panicked>>
    /\ UNCHANGED wrapVars

\* mt.Equals(mt)
EqualsSelf ==
    /\ op # "init"
    /\ ~panicked
    /\ op' = "EqualsSelf"
    /\ ok' = Equals(mt, mt)
    /\ digest' = <<>>
    /\ UNCHANGED <<mt, built, segments, writes, other, panicked>>
    /\ UNCHANGED wrapVars

\* one tree, its shared buffer, and the calls on it
Next ==
    \/ NewTree
    \/ OverwriteByte
    \/ GetRootHash
    \/ Validate
    \/ EqualsSelf

Spec == Init /\ [][Next]_vars

\* two trees with one segment size
NextPair ==
    \/ NewTree
    \/ NewOther
    \/ EqualsOther

SpecPair == Init /\ [][NextPair]_vars

---------------------------------------------------------------------------
(* SpecWrap: the constructor step by step, lengths only.  Which branch     *)
(* chopData and buildTree take depends on dataLen, segmentSize, i and      *)
(* len(segments) alone, never on the bytes.                                *)

MainIdle ==
    /\ mt = [root |-> Nil, data |-> <<>>, segmentSize |-> 1]
    /\ built = <<>>
    /\ segments = <<>>
    /\ writes = 0
    /\ other = [root |-> Nil, data |-> <<>>, segmentSize |-> 1]
    /\ op = "init"
    /\ ok = FALSE
    /\ digest = <<>>
    /\ panicked = FALSE

\* chopData is entered: dataLen := uint32(len(data)); i := 0
InitWrap ==
    /\ wLen \in 0 .. (Mod - 1)
    /\ wSeg \in 1 .. (Mod - 1)
    /\ wi = 0
    /\ wn = 0
    /\ wpc = "chop"
    /\ wstack = <<>>
    /\ MainIdle

\* one turn of chopData's loop: a segment is appended, i += segmentSize
ChopIterate ==
    /\ wpc = "chop"
    /\ wi < wLen
    /\ wn < Mod
    /\ wn' = wn + 1
    /\ wi' = U32(wi + wSeg)
    /\ UNCHANGED <<wLen, wSeg, wpc, wstack>>
    /\ UNCHANGED mainVars

\* the loop condition fails: chopData returns, buildTree(segments, 0, len)
ChopReturn ==
    /\ wpc = "chop"
    /\ ~(wi < wLen)
    /\ wpc' = "build"
    /\ wstack' = <<(<<U32(0), wLen>>)>>
    /\ UNCHANGED <<wLen, wSeg, wi, wn>>
    /\ UNCHANGED mainVars

\* one call of buildTree: nil, a leaf, or two recursive calls
BuildCall ==
    /\ wpc = "build"
    /\ wstack # <<>>
    /\ LET start == Head(wstack)[1]
           end == Head(wstack)[2]
       IN  IF wn = 0 \/ U32(end - start) <= wSeg
           THEN wstack' = Tail(wstack)
           ELSE wstack' = <<(<<start, Mid(start, end)>>),
                            (<<Mid(start, end), end>>)>> \o Tail(wstack)
    /\ UNCHANGED <<wLen, wSeg, wi, wn, wpc>>
    /\ UNCHANGED mainVars

\* the outermost buildTree has returned: the constructor returns
BuildReturn ==
    /\ wpc = "build"
    /\ wstack = <<>>
    /\ wpc' = "done"
    /\ UNCHANGED <<wLen, wSeg, wi, wn, wstack>>
    /\ UNCHANGED mainVars

NextWrap ==
    \/ ChopIterate
    \/ ChopReturn
    \/ BuildCall
    \/ BuildReturn

SpecWrap == InitWrap /\ [][NextWrap]_vars

---------------------------------------------------------------------------
(* Claims *)

\* C1: in the tree of a non-empty buffer the k-th leaf (left to right)
\* carries the hash of the k-th segment of chopData, every internal node
\* carries the hash of its children's digests concatenated, and a buffer of
\* two full segments has the root H(H(first segment) || H(second segment)).
C1_LeavesHashSegmentsInOrder ==
    (Len(built) > 0 /\ mt.root.kind = "node") =>
        /\ LeafHashes(mt.root) =
               [k \in 1 .. Len(segments) |-> Hash(segments[k])]
        /\ InternalHashes(mt.root)
        /\ Len(built) = 2 * mt.segmentSize =>
               RootHash(mt) = Hash(Hash(segments[1]) \o Hash(segments[2]))

\* C2: two trees with one segment size, built from two buffers of one
\* length that differ in exactly one byte, have different root digests.
C2_TamperChangesRoot ==
    ( /\ op = "NewOther"
      /\ Len(mt.data) > 0
      /\ Len(other.data) = Len(mt.data)
      /\ Cardinality(DiffAt(mt.data, other.data)) = 1
      /\ mt.root.kind = "node" /\ other.root.kind = "node" ) =>
        RootHash(mt) # RootHash(other)

\* C3: Validate returns true iff the buffer the tree holds is still the
\* buffer it was built from.
C3_ValidateIffUnmodified ==
    (op = "Validate" /\ ~panicked) => (ok <=> mt.data = built)

\* C4: for two trees with one segment size, Equals returns true when they
\* were built from the same buffer and false when the buffers differ in
\* content or in length.
C4_EqualsIffSameBuffer ==
    op = "Equals" => (ok <=> other.data = mt.data)

\* C5: the tree of a buffer of length L > 0 has ceil(L / segmentSize)
\* leaves, as many as chopData returned segments.
C5_LeafCountIsSegmentCount ==
    (Len(built) > 0 /\ mt.root.kind = "node") =>
        /\ NumLeaves(mt.root) = CeilDiv(Len(built), mt.segmentSize)
        /\ NumLeaves(mt.root) = Len(segments)

C8_EmptyRootHashIsError ==
    (op = "GetRootHash" /\ Len(built) = 0) => (mt.root = Nil /\ ~panicked)

\* C9: the depths of any two leaves of a built tree differ by at most one.
C9_Balanced ==
    mt.root.kind = "node" =>
        \A d1, d2 \in LeafDepths(mt.root, 0) : d1 - d2 <= 1

\* a tree whose leaves sit on two levels, the deeper at depth 3 or more
C9_TwoLevels ==
    /\ op = "NewMerkleTree"
    /\ mt.root.kind = "node"
    /\ \E d1, d2 \in LeafDepths(mt.root, 0) : d1 >= 3 /\ d2 = d1 - 1

\* C10: construction ends after a bounded number of steps for every buffer
\* length the unsigned width holds: chopData's loop, which appends one
\* segment per turn, makes no more than ceil(dataLen / segmentSize) turns.
C10_ChopLoopBounded ==
    wn <= CeilDiv(wLen, wSeg)

====
